---------------------------- MODULE Spec2Model ----------------------------
(***************************************************************************)
(* Model of the indexing and ranking engine of pgcurious/search-engine:    *)
(* SearchIndexer (src/indexer.py) and SearchEngine (src/search_engine.py), *)
(* and of the loop of WebCrawler.crawl (src/crawler.py).                   *)
(*                                                                         *)
(* Representation                                                          *)
(*   - a Python str is a sequence of one-character strings;                *)
(*   - a Python dict (insertion ordered) is a sequence of <<key, value>>   *)
(*     pairs with pairwise distinct keys, in insertion order;              *)
(*   - a Python float score is an exact fraction [num, den] in lowest      *)
(*     terms, in units of 1/LnScale (math.log is a fixed-point table);     *)
(*     rounding errors of IEEE arithmetic are not modelled;                *)
(*   - a URL is a pair <<netloc, path>>.                                   *)
(***************************************************************************)
EXTENDS Integers, Sequences, FiniteSets, TLC

---------------------------------------------------------------------------
(* Bounds of the model *)

\* number of add_document calls in one run
MaxAdds == 4

\* number of add_document calls in one run that saves and loads snapshots
MaxSavedAdds == 2

\* the greatest max_pages a crawler is constructed with
MaxPages == 2

---------------------------------------------------------------------------
(* Characters and strings *)

UpperChars ==
    << "A", "B", "C", "D", "E", "F", "G", "H", "I", "J", "K", "L", "M",
       "N", "O", "P", "Q", "R", "S", "T", "U", "V", "W", "X", "Y", "Z" >>

LowerChars ==
    << "a", "b", "c", "d", "e", "f", "g", "h", "i", "j", "k", "l", "m",
       "n", "o", "p", "q", "r", "s", "t", "u", "v", "w", "x", "y", "z" >>

DigitChars == << "0", "1", "2", "3", "4", "5", "6", "7", "8", "9" >>

Range(s) == { s[i] : i \in DOMAIN s }

\* str.lower() on the upper-case letters
LowerOf ==
    [c \in Range(UpperChars) |->
        LowerChars[CHOOSE i \in DOMAIN UpperChars : UpperChars[i] = c]]

\* str.lower() on one character
LowerChar(c) == IF c \in DOMAIN LowerOf THEN LowerOf[c] ELSE c

\* str.lower()
Lower(text) == [i \in DOMAIN text |-> LowerChar(text[i])]

\* the class \w of the regular expression
WordChars ==
    Range(UpperChars) \cup Range(LowerChars) \cup Range(DigitChars) \cup {"_"}

IsWordChar(c) == c \in WordChars

\* s[:n] for n >= 0
Take(s, n) == SubSeq(s, 1, IF Len(s) < n THEN Len(s) ELSE n)

\* the elements of a finite set of integers in increasing order
SortedSeq(S) ==
    [k \in 1..Cardinality(S) |->
        CHOOSE x \in S : Cardinality({y \in S : y < x}) = k - 1]

\* str.startswith
StartsWith(s, prefix) ==
    /\ Len(prefix) <= Len(s)
    /\ SubSeq(s, 1, Len(prefix)) = prefix

\* s[at:].startswith(sub), at is 1-based
OccursAt(s, sub, at) ==
    /\ at + Len(sub) - 1 <= Len(s)
    /\ SubSeq(s, at, at + Len(sub) - 1) = sub

\* str.count(sub) scanning from position at: non-overlapping occurrences,
\* leftmost first; the empty string occurs len(s) + 1 times
RECURSIVE CountFrom(_, _, _)
CountFrom(s, sub, at) ==
    IF sub = << >> THEN Len(s) + 2 - at
    ELSE IF at + Len(sub) - 1 > Len(s) THEN 0
    ELSE IF OccursAt(s, sub, at) THEN 1 + CountFrom(s, sub, at + Len(sub))
    ELSE CountFrom(s, sub, at + 1)

StrCount(s, sub) == CountFrom(s, sub, 1)

\* sub in s
Contains(s, sub) == \E at \in 1..(Len(s) + 1) : OccursAt(s, sub, at)

---------------------------------------------------------------------------
(* Python dict: insertion-ordered sequence of <<key, value>> pairs *)

DictKeys(d) == { d[i][1] : i \in DOMAIN d }

DictHas(d, k) == k \in DictKeys(d)

DictGet(d, k) == d[CHOOSE i \in DOMAIN d : d[i][1] = k][2]

\* d[k] = v : an existing key keeps its position, a new key goes last
DictSet(d, k, v) ==
    IF DictHas(d, k)
    THEN [i \in DOMAIN d |-> IF d[i][1] = k THEN <<k, v>> ELSE d[i]]
    ELSE Append(d, <<k, v>>)

---------------------------------------------------------------------------
(* SearchIndexer.tokenize *)

StopWords == {
    <<"t","h","e">>, <<"a">>, <<"a","n">>, <<"a","n","d">>, <<"o","r">>,
    <<"b","u","t">>, <<"i","n">>, <<"o","n">>, <<"a","t">>, <<"t","o">>,
    <<"f","o","r">>, <<"o","f">>, <<"w","i","t","h">>, <<"b","y">>,
    <<"f","r","o","m">>, <<"a","s">>, <<"i","s">>, <<"w","a","s">>,
    <<"a","r","e">>, <<"w","e","r","e">>, <<"b","e","e","n">>, <<"b","e">>,
    <<"h","a","v","e">>, <<"h","a","s">>, <<"h","a","d">>, <<"d","o">>,
    <<"d","o","e","s">>, <<"d","i","d">>, <<"w","i","l","l">>,
    <<"w","o","u","l","d">>, <<"c","o","u","l","d">>,
    <<"s","h","o","u","l","d">>, <<"m","a","y">>, <<"m","i","g","h","t">>,
    <<"c","a","n">>, <<"t","h","i","s">>, <<"t","h","a","t">>,
    <<"t","h","e","s","e">>, <<"t","h","o","s","e">>, <<"i">>,
    <<"y","o","u">>, <<"h","e">>, <<"s","h","e">>, <<"i","t">>, <<"w","e">>,
    <<"t","h","e","y">>, <<"t","h","e","m">>, <<"t","h","e","i","r">> }

\* tokens shorter than this are dropped: len(t) > 2
MinTokenLen == 3

\* re.findall(r'\b\w+\b', text): the maximal runs of word characters
FindWords(text) ==
    LET n      == Len(text)
        starts == { i \in 1..n : /\ IsWordChar(text[i])
                                 /\ (i = 1 \/ ~IsWordChar(text[i - 1])) }
        ends   == { j \in 1..n : /\ IsWordChar(text[j])
                                 /\ (j = n \/ ~IsWordChar(text[j + 1])) }
        from   == SortedSeq(starts)
        to     == SortedSeq(ends)
    IN  [k \in DOMAIN from |-> SubSeq(text, from[k], to[k])]

\* tokenize as it would be without the stop-word filter (C6 must tell them apart)
KeepTokenOfAnyWord(t) == Len(t) >= MinTokenLen

KeepToken(t) == t \notin StopWords /\ Len(t) >= MinTokenLen

tokenize(text) == SelectSeq(FindWords(Lower(text)), KeepToken)

---------------------------------------------------------------------------
(* Scores: exact fractions of fixed-point logarithms *)

\* one unit of a score numerator is 1 / LnScale
LnScale == 10000

\* LnTable[n] = ln(n) * LnScale, with ln(4) = 2 ln(2) and ln(6) = ln(2) + ln(3)
LnTable == << 0, 6931, 10986, 13862, 16094, 17917 >>

\* the logarithm as it would be with the quotient inverted, math.log(d / n)
\* (C14 must tell them apart)
MathLogInverted(n, d) == LnTable[d] - LnTable[n]

\* math.log(n / d) for positive integers n, d
MathLog(n, d) == LnTable[n] - LnTable[d]

Abs(x) == IF x < 0 THEN -x ELSE x

RECURSIVE GCD(_, _)
GCD(a, b) == IF b = 0 THEN a ELSE GCD(b, a % b)

\* the fraction n / d (d > 0) in lowest terms
Frac(n, d) ==
    LET g == GCD(Abs(n), d)
    IN  [num |-> n \div g, den |-> d \div g]

ZeroScore == [num |-> 0, den |-> 1]

ScoreAdd(a, b) == Frac(a.num * b.den + b.num * a.den, a.den * b.den)

ScoreLess(a, b) == a.num * b.den < b.num * a.den

\* round(score, 4) as a number of units of 1 / LnScale = 0.0001: the integer
\* nearest to num / den, ties to even
Round4(s) ==
    LET q == s.num \div s.den
        r == s.num - q * s.den
    IN  IF 2 * r > s.den \/ (2 * r = s.den /\ q % 2 = 1) THEN q + 1 ELSE q

---------------------------------------------------------------------------
(* State *)

VARIABLES
    inverted_index,   \* term -> (doc_id -> frequency)
    documents,        \* doc_id -> [title, content, url]
    doc_lengths,      \* doc_id -> number of weighted tokens
    tfidf_scores,     \* term -> (doc_id -> score)
    file,             \* the snapshot file: NoFile or the JSON document in it
    saved,            \* history: the indexer at the last save_index
    lastOp,           \* the last call: [op, text, k]
    result,           \* what the last query returned
    raised,           \* the exception the last call raised, or NoError
    numAdds,          \* add_document calls so far
    max_pages,        \* WebCrawler.max_pages
    visited_urls,     \* WebCrawler.visited_urls
    seed_urls,        \* crawl: the argument seed_urls
    same_domain,      \* crawl: the argument same_domain
    to_visit,         \* crawl: the queue of URLs
    crawled_pages,    \* crawl: the pages fetched, which it returns
    web,              \* the links of the page at each URL
    fetches,          \* history: the calls of fetch_page, <<url, page returned>>
    pc                \* crawl: "idle", "loop" or "returned"

\* the state of the indexer and of the calls made on it
indexVars == << inverted_index, documents, doc_lengths, tfidf_scores,
                file, saved, lastOp, result, raised, numAdds >>

\* the state of the crawler and of the web it crawls
crawlVars == << max_pages, visited_urls, seed_urls, same_domain, to_visit,
                crawled_pages, web, fetches, pc >>

vars == << indexVars, crawlVars >>

\* the four fields of a SearchIndexer as one value
Indexer(inv, docs, lens, tfidf) ==
    [inverted_index |-> inv, documents |-> docs,
     doc_lengths |-> lens, tfidf_scores |-> tfidf]

Self == Indexer(inverted_index, documents, doc_lengths, tfidf_scores)

EmptyIndexer == Indexer(<< >>, << >>, << >>, << >>)

NoFile == [json |-> "missing"]

NoError == "none"

\* a call: its name, its text or argument tuple, its limit (0 when it has none)
Call(op, args, k) == [op |-> op, args |-> args, k |-> k]

---------------------------------------------------------------------------
(* SearchIndexer.add_document *)

\* the stored preview is content[:500]
PreviewLen == 500

\* collections.Counter(tokens): term -> count, in order of first occurrence
Counter(tokens) ==
    LET firsts == { i \in DOMAIN tokens :
                      \A j \in 1..(i - 1) : tokens[j] # tokens[i] }
        order  == SortedSeq(firsts)
    IN  [k \in DOMAIN order |->
            << tokens[order[k]],
               Cardinality({ j \in DOMAIN tokens : tokens[j] = tokens[order[k]] }) >>]

\* the weighted tokens as they would be if the content were tokenized after
\* it was cut to the stored preview (C12 must tell them apart)
AllTokensOfPreview(title, content) ==
    LET title_tokens   == tokenize(title)
        content_tokens == tokenize(Take(content, PreviewLen))
    IN  title_tokens \o title_tokens \o title_tokens \o content_tokens

\* title_tokens * 3 + content_tokens
AllTokens(title, content) ==
    LET title_tokens   == tokenize(title)
        content_tokens == tokenize(content)
    IN  title_tokens \o title_tokens \o title_tokens \o content_tokens

\* the loop as it would be if it added the new count to the old one (C13 must
\* tell them apart)
RECURSIVE UpdateIndexAdding(_, _, _)
UpdateIndexAdding(inv, doc_id, term_frequencies) ==
    IF term_frequencies = << >> THEN inv
    ELSE LET term     == term_frequencies[1][1]
             freq     == term_frequencies[1][2]
             postings == IF DictHas(inv, term) THEN DictGet(inv, term) ELSE << >>
             old      == IF DictHas(postings, doc_id) THEN DictGet(postings, doc_id) ELSE 0
         IN  UpdateIndexAdding(DictSet(inv, term, DictSet(postings, doc_id, old + freq)),
                               doc_id, Tail(term_frequencies))

\* for term, freq in term_frequencies.items():
\*     self.inverted_index[term][doc_id] = freq
RECURSIVE UpdateIndex(_, _, _)
UpdateIndex(inv, doc_id, term_frequencies) ==
    IF term_frequencies = << >> THEN inv
    ELSE LET term     == term_frequencies[1][1]
             freq     == term_frequencies[1][2]
             postings == IF DictHas(inv, term) THEN DictGet(inv, term) ELSE << >>
         IN  UpdateIndex(DictSet(inv, term, DictSet(postings, doc_id, freq)),
                         doc_id, Tail(term_frequencies))

StoredDocument(title, content, url) ==
    [title |-> title, content |-> Take(content, PreviewLen), url |-> url]

\* add_document as it would be if it emptied the score table (C5 must tell
\* them apart)
AddDocumentClearingScores(ix, doc_id, title, content, url) ==
    LET all_tokens == AllTokens(title, content)
    IN  Indexer(UpdateIndex(ix.inverted_index, doc_id, Counter(all_tokens)),
                DictSet(ix.documents, doc_id, StoredDocument(title, content, url)),
                DictSet(ix.doc_lengths, doc_id, Len(all_tokens)),
                << >>)

\* add_document as it would be if it stored only the documents that have a
\* content (C16 must tell them apart)
AddDocumentStoringContent(ix, doc_id, title, content, url) ==
    LET all_tokens == AllTokens(title, content)
    IN  Indexer(UpdateIndex(ix.inverted_index, doc_id, Counter(all_tokens)),
                IF content = << >> THEN ix.documents
                ELSE DictSet(ix.documents, doc_id, StoredDocument(title, content, url)),
                DictSet(ix.doc_lengths, doc_id, Len(all_tokens)),
                ix.tfidf_scores)

\* the indexer after add_document(doc_id, title, content, url)
AddDocumentTo(ix, doc_id, title, content, url) ==
    LET all_tokens == AllTokens(title, content)
    IN  Indexer(UpdateIndex(ix.inverted_index, doc_id, Counter(all_tokens)),
                DictSet(ix.documents, doc_id, StoredDocument(title, content, url)),
                DictSet(ix.doc_lengths, doc_id, Len(all_tokens)),
                ix.tfidf_scores)

---------------------------------------------------------------------------
(* SearchIndexer.calculate_tfidf *)

\* tf * idf for one posting
TfIdf(term_freq, doc_length, num_docs, df) ==
    IF doc_length > 0
    THEN Frac(term_freq * MathLog(num_docs, df), doc_length)
    ELSE ZeroScore

\* self.tfidf_scores[term] = {} followed by the inner loop over doc_freqs
TermScores(ix, doc_freqs, num_docs) ==
    [i \in DOMAIN doc_freqs |->
        << doc_freqs[i][1],
           TfIdf(doc_freqs[i][2], DictGet(ix.doc_lengths, doc_freqs[i][1]),
                 num_docs, Len(doc_freqs)) >>]

\* the outer loop as it would be if it skipped the terms scored by an earlier
\* recompute (C4 must tell them apart)
RECURSIVE ScoreNewTerms(_, _, _, _)
ScoreNewTerms(tfidf, ix, items, num_docs) ==
    IF items = << >> THEN tfidf
    ELSE ScoreNewTerms(IF DictHas(tfidf, items[1][1]) THEN tfidf
                       ELSE DictSet(tfidf, items[1][1],
                                    TermScores(ix, items[1][2], num_docs)),
                       ix, Tail(items), num_docs)

\* the outer loop over self.inverted_index.items()
RECURSIVE ScoreTerms(_, _, _, _)
ScoreTerms(tfidf, ix, items, num_docs) ==
    IF items = << >> THEN tfidf
    ELSE ScoreTerms(DictSet(tfidf, items[1][1], TermScores(ix, items[1][2], num_docs)),
                    ix, Tail(items), num_docs)

\* the indexer after calculate_tfidf()
CalculateTfidfOf(ix) ==
    LET num_docs == Len(ix.documents)
    IN  IF num_docs = 0 THEN ix
        ELSE [ix EXCEPT !.tfidf_scores =
                 ScoreTerms(ix.tfidf_scores, ix, ix.inverted_index, num_docs)]

---------------------------------------------------------------------------
(* SearchEngine.search *)

\* for doc_id, score in self.indexer.tfidf_scores[term].items():
\*     doc_scores[doc_id] += score          (doc_scores is a defaultdict(float))
RECURSIVE AddTermScores(_, _)
AddTermScores(doc_scores, scores) ==
    IF scores = << >> THEN doc_scores
    ELSE LET doc_id == scores[1][1]
             old    == IF DictHas(doc_scores, doc_id)
                       THEN DictGet(doc_scores, doc_id) ELSE ZeroScore
         IN  AddTermScores(DictSet(doc_scores, doc_id, ScoreAdd(old, scores[1][2])),
                           Tail(scores))

\* the loop over query_terms
RECURSIVE Accumulate(_, _, _)
Accumulate(doc_scores, tfidf, query_terms) ==
    IF query_terms = << >> THEN doc_scores
    ELSE Accumulate(IF DictHas(tfidf, query_terms[1])
                    THEN AddTermScores(doc_scores, DictGet(tfidf, query_terms[1]))
                    ELSE doc_scores,
                    tfidf, Tail(query_terms))

\* doc_scores when the loop is over
DocScores(ix, query) == Accumulate(<< >>, ix.tfidf_scores, tokenize(query))

\* sorted(items, key=..., reverse=True): descending and stable.  less[i, j]
\* says that the key of items[i] is less than the key of items[j]; an item
\* goes after the items with a greater key and after the earlier items with
\* an equal key.
SortedDesc(items, less) ==
    LET Rank(i) ==
            Cardinality({ j \in DOMAIN items : less[i, j] })
          + Cardinality({ j \in 1..(i - 1) : ~less[j, i] /\ ~less[i, j] })
          + 1
    IN  [r \in DOMAIN items |-> items[CHOOSE i \in DOMAIN items : Rank(i) = r]]

\* seq[:k]
SliceTo(seq, k) ==
    IF k >= 0 THEN Take(seq, k)
    ELSE Take(seq, IF Len(seq) + k > 0 THEN Len(seq) + k ELSE 0)

\* key=lambda x: x[1] on the items of doc_scores
PairScoreLess(items) ==
    [i \in DOMAIN items, j \in DOMAIN items |-> ScoreLess(items[i][2], items[j][2])]

\* ranked_docs[:top_k]
RankedDocs(ix, query, top_k) ==
    LET items == DocScores(ix, query)
    IN  SliceTo(SortedDesc(items, PairScoreLess(items)), top_k)

\* self.indexer.inverted_index[term] read on the defaultdict: the index after
\* the read, in which a missing term has got an empty posting list
Subscript(inv, term) ==
    IF DictHas(inv, term) THEN inv ELSE Append(inv, << term, << >> >>)

\* the reads as they would be without the test "term in inverted_index" (C15
\* must tell them apart)
RECURSIVE MatchedTermsReadsUnguarded(_, _)
MatchedTermsReadsUnguarded(inv, query_terms) ==
    IF query_terms = << >> THEN inv
    ELSE MatchedTermsReadsUnguarded(Subscript(inv, query_terms[1]), Tail(query_terms))

\* the inverted index after the reads of _get_matched_terms: term by term,
\* inverted_index[term] is read if term is in inverted_index
RECURSIVE MatchedTermsReads(_, _)
MatchedTermsReads(inv, query_terms) ==
    IF query_terms = << >> THEN inv
    ELSE MatchedTermsReads(IF DictHas(inv, query_terms[1])
                           THEN Subscript(inv, query_terms[1])
                           ELSE inv,
                           Tail(query_terms))

\* SearchEngine._get_matched_terms
MatchedTerms(ix, doc_id, query_terms) ==
    LET Matches(term) ==
            /\ DictHas(ix.inverted_index, term)
            /\ DictHas(DictGet(ix.inverted_index, term), doc_id)
    IN  SelectSeq(query_terms, Matches)

\* self.indexer.documents[doc_id] raises KeyError for an unknown doc_id
SearchRaises(ix, query, top_k) ==
    LET ranked == RankedDocs(ix, query, top_k)
    IN  /\ tokenize(query) # << >>
        /\ \E i \in DOMAIN ranked : ~DictHas(ix.documents, ranked[i][1])

\* the inverted index when search is over: _get_matched_terms is called for
\* the ranked documents up to the first that is not in the store, and reads
\* the same terms at each call
SearchReads(ix, query, top_k) ==
    LET ranked == RankedDocs(ix, query, top_k)
    IN  IF /\ tokenize(query) # << >>
           /\ ranked # << >>
           /\ DictHas(ix.documents, ranked[1][1])
        THEN MatchedTermsReads(ix.inverted_index, tokenize(query))
        ELSE ix.inverted_index

\* what search(query, top_k) returns when it raises nothing
Search(ix, query, top_k) ==
    LET query_terms == tokenize(query)
        ranked      == RankedDocs(ix, query, top_k)
    IN  IF query_terms = << >> THEN << >>
        ELSE IF DocScores(ix, query) = << >> THEN << >>
        ELSE [i \in DOMAIN ranked |->
                LET doc_id == ranked[i][1]
                    doc    == DictGet(ix.documents, doc_id)
                IN  [doc_id        |-> doc_id,
                     title         |-> doc.title,
                     url           |-> doc.url,
                     snippet       |-> doc.content,
                     score         |-> Round4(ranked[i][2]),
                     matched_terms |-> MatchedTerms(ix, doc_id, query_terms)]]

---------------------------------------------------------------------------
(* SearchEngine.search_phrase *)

\* the phrase score as it would be without the weight of the title (C8 must
\* tell them apart)
PhraseScoreUnweighted(doc, phrase_lower) ==
    StrCount(Lower(doc.content), phrase_lower)
    + StrCount(Lower(doc.title), phrase_lower)

\* content.count(phrase_lower) + title.count(phrase_lower) * 3
PhraseScore(doc, phrase_lower) ==
    StrCount(Lower(doc.content), phrase_lower)
    + StrCount(Lower(doc.title), phrase_lower) * 3

\* if phrase_lower in content or phrase_lower in title
PhraseMatches(doc, phrase_lower) ==
    \/ Contains(Lower(doc.content), phrase_lower)
    \/ Contains(Lower(doc.title), phrase_lower)

\* the results appended by the loop over self.indexer.documents.items()
PhraseResults(ix, phrase) ==
    LET phrase_lower == Lower(phrase)
        IsHit(item)  == PhraseMatches(item[2], phrase_lower)
        hits         == SelectSeq(ix.documents, IsHit)
    IN  [i \in DOMAIN hits |->
            [doc_id        |-> hits[i][1],
             title         |-> hits[i][2].title,
             url           |-> hits[i][2].url,
             snippet       |-> hits[i][2].content,
             score         |-> PhraseScore(hits[i][2], phrase_lower),
             matched_terms |-> << phrase >>]]

\* key=lambda x: x['score'] on the results
ResultScoreLess(items) ==
    [i \in DOMAIN items, j \in DOMAIN items |-> items[i].score < items[j].score]

\* what search_phrase(phrase, top_k) returns
SearchPhrase(ix, phrase, top_k) ==
    LET results == PhraseResults(ix, phrase)
    IN  SliceTo(SortedDesc(results, ResultScoreLess(results)), top_k)

---------------------------------------------------------------------------
(* SearchEngine.get_suggestions *)

\* the (term, doc_freq) pairs appended by the loop over inverted_index.keys()
Suggestions(ix, prefix) ==
    LET prefix_lower == Lower(prefix)
        IsHit(item)  == StartsWith(item[1], prefix_lower)
        hits         == SelectSeq(ix.inverted_index, IsHit)
    IN  [i \in DOMAIN hits |-> << hits[i][1], Len(hits[i][2]) >>]

\* the inverted index after the reads of get_suggestions:
\* len(self.indexer.inverted_index[term]) for the keys that have the prefix
RECURSIVE SuggestionsReads(_, _, _)
SuggestionsReads(inv, terms, prefix_lower) ==
    IF terms = << >> THEN inv
    ELSE SuggestionsReads(IF StartsWith(terms[1], prefix_lower)
                          THEN Subscript(inv, terms[1])
                          ELSE inv,
                          Tail(terms), prefix_lower)

\* the comparison as it would be if the sort were ascending (C9 must tell them
\* apart)
PairFreqGreater(items) ==
    [i \in DOMAIN items, j \in DOMAIN items |-> items[i][2] > items[j][2]]

\* key=lambda x: x[1] on the (term, doc_freq) pairs
PairFreqLess(items) ==
    [i \in DOMAIN items, j \in DOMAIN items |-> items[i][2] < items[j][2]]

\* what get_suggestions(prefix, max_suggestions) returns
GetSuggestions(ix, prefix, max_suggestions) ==
    LET suggestions == Suggestions(ix, prefix)
        top == SliceTo(SortedDesc(suggestions, PairFreqLess(suggestions)),
                       max_suggestions)
    IN  [i \in DOMAIN top |-> top[i][1]]

---------------------------------------------------------------------------
(* SearchIndexer.save_index / load_index: the JSON document *)

JString(s) == [json |-> "string", value |-> s]

JInt(n) == [json |-> "int", value |-> n]

JFloat(x) == [json |-> "float", value |-> x]

\* a JSON object: its members <<name, value>> in the order written
JObject(members) == [json |-> "object", members |-> members]

\* json.dump of a dict, given the JSON values of its values in order
DumpDict(d, values) == JObject([i \in DOMAIN d |-> << d[i][1], values[i] >>])

\* json.load of an object: a dict whose keys are in the order of their first
\* member, each with the JSON value of its last member
LoadDict(j) ==
    LET m       == j.members
        firsts  == { i \in DOMAIN m : \A k \in 1..(i - 1) : m[k][1] # m[i][1] }
        order   == SortedSeq(firsts)
        Last(i) == CHOOSE k \in DOMAIN m :
                      /\ m[k][1] = m[i][1]
                      /\ \A l \in (k + 1)..Len(m) : m[l][1] # m[i][1]
    IN  [n \in DOMAIN order |-> << m[order[n]][1], m[Last(order[n])][2] >>]

\* the value is a JSON object, which json.load turns into a dict
IsObject(j) == j.json = "object"

\* a dict of numbers
DumpInts(d) == DumpDict(d, [i \in DOMAIN d |-> JInt(d[i][2])])

DumpFloats(d) == DumpDict(d, [i \in DOMAIN d |-> JFloat(d[i][2])])

\* json.load of a dict of numbers, or of a value that is not an object
LoadNumbers(j) ==
    IF IsObject(j)
    THEN LET d == LoadDict(j)
         IN  [i \in DOMAIN d |-> << d[i][1], d[i][2].value >>]
    ELSE j.value

\* a dict of dicts of numbers: inverted_index, tfidf_scores
DumpPostings(d) == DumpDict(d, [i \in DOMAIN d |-> DumpInts(d[i][2])])

DumpScores(d) == DumpDict(d, [i \in DOMAIN d |-> DumpFloats(d[i][2])])

LoadPostings(j) ==
    IF IsObject(j)
    THEN LET d == LoadDict(j)
         IN  [i \in DOMAIN d |-> << d[i][1], LoadNumbers(d[i][2]) >>]
    ELSE j.value

\* one document
DumpDocument(doc) ==
    JObject(<< <<"title", JString(doc.title)>>,
               <<"content", JString(doc.content)>>,
               <<"url", JString(doc.url)>> >>)

LoadDocument(j) ==
    IF IsObject(j)
    THEN LET d == LoadDict(j)
         IN  [title   |-> DictGet(d, "title").value,
              content |-> DictGet(d, "content").value,
              url     |-> DictGet(d, "url").value]
    ELSE j.value

\* the dict of documents
DumpDocuments(d) == DumpDict(d, [i \in DOMAIN d |-> DumpDocument(d[i][2])])

LoadDocuments(j) ==
    IF IsObject(j)
    THEN LET d == LoadDict(j)
         IN  [i \in DOMAIN d |-> << d[i][1], LoadDocument(d[i][2]) >>]
    ELSE j.value

\* the data written by save_index
SaveIndexData(ix) ==
    JObject(<< <<"inverted_index", DumpPostings(ix.inverted_index)>>,
               <<"documents", DumpDocuments(ix.documents)>>,
               <<"doc_lengths", DumpInts(ix.doc_lengths)>>,
               <<"tfidf_scores", DumpScores(ix.tfidf_scores)>> >>)

\* load_index as it would be if it left the documents of the new indexer
\* empty (C10 must tell them apart)
LoadIndexDataLessDocuments(j) ==
    LET data == LoadDict(j)
    IN  Indexer(LoadPostings(DictGet(data, "inverted_index")),
                << >>,
                LoadNumbers(DictGet(data, "doc_lengths")),
                LoadPostings(DictGet(data, "tfidf_scores")))

\* the indexer after load_index has read data
LoadIndexData(j) ==
    LET data == LoadDict(j)
    IN  Indexer(LoadPostings(DictGet(data, "inverted_index")),
                LoadDocuments(DictGet(data, "documents")),
                LoadNumbers(DictGet(data, "doc_lengths")),
                LoadPostings(DictGet(data, "tfidf_scores")))

\* a file whose text is not JSON
NotJson == [json |-> "invalid"]

\* the top-level fields in the order in which load_index assigns them
FieldNames == << "inverted_index", "documents", "doc_lengths", "tfidf_scores" >>

\* the exception raised by the right-hand side of the assignment of field n:
\* data[name] needs the key, data['inverted_index'].items() needs a dict and
\* defaultdict(int, v) needs a mapping v; the other three values are assigned
\* as they are
FieldRaises(data, n) ==
    IF ~DictHas(data, FieldNames[n]) THEN "KeyError"
    ELSE IF n > 1 THEN NoError
    ELSE LET j == DictGet(data, FieldNames[1])
         IN  IF ~IsObject(j) THEN "AttributeError"
             ELSE IF \E i \in DOMAIN LoadDict(j) : ~IsObject(LoadDict(j)[i][2])
                  THEN "TypeError"
                  ELSE NoError

\* the number of fields load_index assigns before it raises, all of them when
\* it does not
FieldsAssigned(f) ==
    IF f = NoFile \/ f = NotJson \/ ~IsObject(f) THEN 0
    ELSE LET data == LoadDict(f)
             bad  == { n \in DOMAIN FieldNames : FieldRaises(data, n) # NoError }
         IN  IF bad = { } THEN Len(FieldNames)
             ELSE (CHOOSE n \in bad : \A m \in bad : n <= m) - 1

\* the exception load_index raises on the file, NoError when it returns
LoadRaises(f) ==
    IF f = NoFile THEN "FileNotFoundError"
    ELSE IF f = NotJson THEN "JSONDecodeError"
    ELSE IF ~IsObject(f) THEN "TypeError"
    ELSE IF FieldsAssigned(f) = Len(FieldNames) THEN NoError
    ELSE FieldRaises(LoadDict(f), FieldsAssigned(f) + 1)

\* the indexer when load_index is over: the fields assigned before an
\* exception have their new values, the others keep their old ones
LoadIndexInto(ix, f) ==
    IF LoadRaises(f) = NoError THEN LoadIndexData(f)
    ELSE LET n    == FieldsAssigned(f)
             data == LoadDict(f)
         IN  Indexer(IF n >= 1 THEN LoadPostings(DictGet(data, FieldNames[1]))
                               ELSE ix.inverted_index,
                     IF n >= 2 THEN LoadDocuments(DictGet(data, FieldNames[2]))
                               ELSE ix.documents,
                     IF n >= 3 THEN LoadNumbers(DictGet(data, FieldNames[3]))
                               ELSE ix.doc_lengths,
                     ix.tfidf_scores)

---------------------------------------------------------------------------
(* Snapshot files that save_index did not write *)

\* a JSON value that is not an object
NotAMapping == JInt(5)

\* the object without the member of that name
WithoutField(j, name) ==
    LET Other(m) == m[1] # name
    IN  JObject(SelectSeq(j.members, Other))

\* the object with the value of that member replaced
WithField(j, name, v) ==
    JObject([i \in DOMAIN j.members |->
                IF j.members[i][1] = name THEN << name, v >> ELSE j.members[i]])

\* the object with every member of the object of that name replaced
WithMembersOf(j, name, v) ==
    LET inner == DictGet(LoadDict(j), name)
    IN  WithField(j, name,
                  JObject([i \in DOMAIN inner.members |-> << inner.members[i][1], v >>]))

\* the fields whose members are mappings themselves
MappingFields == { "inverted_index", "documents", "tfidf_scores" }

\* what is left of a snapshot j when its text is cut short, when it is replaced
\* by another JSON value, when a top-level field is dropped, and when a field
\* or the members of a field are replaced by a value that is not a mapping
DamagedCopies(j) ==
    ({ NotJson, NotAMapping }
     \cup { WithoutField(j, FieldNames[n]) : n \in DOMAIN FieldNames }
     \cup { WithField(j, FieldNames[n], NotAMapping) : n \in DOMAIN FieldNames }
     \cup { WithMembersOf(j, name, NotAMapping) : name \in MappingFields })
    \ { j }

---------------------------------------------------------------------------
(* WebCrawler: a URL is a pair <<netloc, path>> *)

\* def __init__(self, max_pages: int = 50, ...)
DefaultMaxPages == 50

\* urlparse(url).netloc
Netloc(url) == url[1]

\* seed_domain = urlparse(seed_urls[0]).netloc if same_domain and seed_urls
\* else None; the empty netloc stands for None as well, both being false in
\* "if same_domain and seed_domain"
SeedDomain(seeds, same) == IF same /\ seeds # << >> THEN Netloc(seeds[1]) ELSE ""

\* the test of the domain restriction: the URL is skipped
OtherDomain(url, seeds, same) ==
    /\ same
    /\ SeedDomain(seeds, same) # ""
    /\ Netloc(url) # SeedDomain(seeds, same)

\* for link in page_data['links']:
\*     if link not in self.visited_urls and link not in to_visit:
\*         to_visit.append(link)
RECURSIVE AddLinks(_, _, _)
AddLinks(queue, links, visited) ==
    IF links = << >> THEN queue
    ELSE AddLinks(IF links[1] \notin visited /\ links[1] \notin Range(queue)
                  THEN Append(queue, links[1])
                  ELSE queue,
                  Tail(links), visited)

\* the test of the while loop as it would be if it let one page more through
\* (C17 must tell them apart)
LoopRunsOneMore ==
    /\ pc = "loop"
    /\ to_visit # << >>
    /\ Cardinality(visited_urls) <= max_pages

\* while to_visit and len(self.visited_urls) < self.max_pages
LoopRuns ==
    /\ pc = "loop"
    /\ to_visit # << >>
    /\ Cardinality(visited_urls) < max_pages

\* a URL passes the two tests that skip it
IsFetched(url) ==
    /\ url \notin visited_urls
    /\ ~OtherDomain(url, seed_urls, same_domain)

---------------------------------------------------------------------------
(* Inputs *)

\* two pages of one site and the front page of another
UrlA == << "a.org", "/" >>

UrlAx == << "a.org", "/x" >>

UrlB == << "b.org", "/" >>

\* a seed without scheme and netloc, which no request can fetch
UrlBare == << "", "x" >>

\* the URLs that is_valid_url accepts as links
LinkUrls == { UrlA, UrlAx, UrlB }

\* the links of a page: none, one link twice, a link to the front page and
\* abroad, a link abroad and one inside
LinkLists ==
    { << >>, << UrlAx, UrlAx >>, << UrlA, UrlB >>, << UrlB, UrlAx >> }

\* the arguments seed_urls
SeedLists ==
    { << >>, << UrlA >>, << UrlA, UrlA >>, << UrlAx, UrlA >>, << UrlB, UrlA >>,
      << UrlBare, UrlA >> }

Spaces(n) == [i \in 1..n |-> " "]

\* a page whose title and content are empty
PageEmpty == [title |-> << >>, content |-> << >>, url |-> << >>]

\* title "The Cat", no content
PageCat ==
    [title   |-> << "T", "h", "e", " ", "C", "a", "t" >>,
     content |-> << >>,
     url     |-> << "/", "c" >>]

\* title "Cat", content "a cat-dog cat"
PageCatDog ==
    [title   |-> << "C", "a", "t" >>,
     content |-> << "a", " ", "c", "a", "t", "-", "d", "o", "g", " ", "c", "a", "t" >>,
     url     |-> << "/", "d" >>]

\* no title, content "Dog", blanks up to the end of the preview less one
\* character, "cat": the preview ends in "c"
PageLong ==
    [title   |-> << >>,
     content |-> << "D", "o", "g" >> \o Spaces(PreviewLen - 4) \o << "c", "a", "t" >>,
     url     |-> << "/", "l" >>]

Pages == { PageEmpty, PageCat, PageCatDog, PageLong }

\* the document ids, in the order in which a run first uses them
DocIdSeq == << "doc_0", "doc_1", "doc_2" >>

\* an id already ingested, or the next new one: add_document treats all ids
\* alike, so a run takes its new ids in the order of DocIdSeq
CallableIds ==
    DictKeys(documents)
    \cup (IF Len(documents) < Len(DocIdSeq) THEN { DocIdSeq[Len(documents) + 1] } ELSE { })

\* "", " ", "The is ab", "Cat dog", "dog"
Queries ==
    { << >>,
      << " " >>,
      << "T", "h", "e", " ", "i", "s", " ", "a", "b" >>,
      << "C", "a", "t", " ", "d", "o", "g" >>,
      << "d", "o", "g" >> }

\* "", "CAT"
Phrases == { << >>, << "C", "A", "T" >> }

\* "", "D"
Prefixes == { << >>, << "D" >> }

\* values of top_k and max_suggestions
Limits == { 1, 10 }

---------------------------------------------------------------------------
(* Actions *)

\* SearchIndexer.__init__, no snapshot file
InitIndexer ==
    /\ inverted_index = << >>
    /\ documents = << >>
    /\ doc_lengths = << >>
    /\ tfidf_scores = << >>
    /\ file = NoFile
    /\ saved = EmptyIndexer
    /\ lastOp = Call("init", << >>, 0)
    /\ result = << >>
    /\ raised = NoError
    /\ numAdds = 0

\* WebCrawler.__init__ with the default max_pages, crawl not called
InitCrawler ==
    /\ max_pages = DefaultMaxPages
    /\ visited_urls = { }
    /\ seed_urls = << >>
    /\ same_domain = TRUE
    /\ to_visit = << >>
    /\ crawled_pages = << >>
    /\ web = << >>
    /\ fetches = << >>
    /\ pc = "idle"

Init == InitIndexer /\ InitCrawler

Install(ix) ==
    /\ inverted_index' = ix.inverted_index
    /\ documents' = ix.documents
    /\ doc_lengths' = ix.doc_lengths
    /\ tfidf_scores' = ix.tfidf_scores

QueryOps == { "search", "search_phrase", "get_suggestions" }

\* No call reads lastOp, result or raised, and a query changes nothing else:
\* a call made after a query leads where it leads from the state before the
\* query.  A run is therefore explored up to its first query.
Idle == lastOp.op \notin QueryOps

AddDocument(doc_id, title, content, url) ==
    /\ Idle
    /\ UNCHANGED crawlVars
    /\ Install(AddDocumentTo(Self, doc_id, title, content, url))
    /\ lastOp' = Call("add_document", << doc_id, title, content, url >>, 0)
    /\ result' = << >>
    /\ raised' = NoError
    /\ numAdds' = numAdds + 1
    /\ UNCHANGED << file, saved >>

CalculateTfidf ==
    /\ Idle
    /\ UNCHANGED crawlVars
    /\ Install(CalculateTfidfOf(Self))
    /\ lastOp' = Call("calculate_tfidf", << >>, 0)
    /\ result' = << >>
    /\ raised' = NoError
    /\ UNCHANGED << file, saved, numAdds >>

SaveIndex ==
    /\ Idle
    /\ UNCHANGED crawlVars
    /\ file' = SaveIndexData(Self)
    /\ saved' = Self
    /\ lastOp' = Call("save_index", << >>, 0)
    /\ result' = << >>
    /\ raised' = NoError
    /\ UNCHANGED << inverted_index, documents, doc_lengths, tfidf_scores, numAdds >>

LoadIndex ==
    /\ Idle
    /\ UNCHANGED crawlVars
    /\ raised' = LoadRaises(file)
    /\ Install(LoadIndexInto(Self, file))
    /\ lastOp' = Call("load_index", << >>, 0)
    /\ result' = << >>
    /\ UNCHANGED << file, saved, numAdds >>

SearchCall(query, top_k) ==
    /\ Idle
    /\ UNCHANGED crawlVars
    /\ IF SearchRaises(Self, query, top_k)
       THEN /\ raised' = "KeyError"
            /\ result' = << >>
       ELSE /\ raised' = NoError
            /\ result' = Search(Self, query, top_k)
    /\ lastOp' = Call("search", query, top_k)
    /\ inverted_index' = SearchReads(Self, query, top_k)
    /\ UNCHANGED << documents, doc_lengths, tfidf_scores, file, saved, numAdds >>

SearchPhraseCall(phrase, top_k) ==
    /\ Idle
    /\ UNCHANGED crawlVars
    /\ result' = SearchPhrase(Self, phrase, top_k)
    /\ raised' = NoError
    /\ lastOp' = Call("search_phrase", phrase, top_k)
    /\ UNCHANGED << inverted_index, documents, doc_lengths, tfidf_scores,
                    file, saved, numAdds >>

GetSuggestionsCall(prefix, max_suggestions) ==
    /\ Idle
    /\ UNCHANGED crawlVars
    /\ result' = GetSuggestions(Self, prefix, max_suggestions)
    /\ raised' = NoError
    /\ lastOp' = Call("get_suggestions", prefix, max_suggestions)
    /\ inverted_index' =
          SuggestionsReads(inverted_index,
                           [i \in DOMAIN inverted_index |-> inverted_index[i][1]],
                           Lower(prefix))
    /\ UNCHANGED << documents, doc_lengths, tfidf_scores, file, saved, numAdds >>

\* the ingestion of a page under an id, in a run of at most MaxAdds ingestions
Ingest ==
    /\ numAdds < MaxAdds
    /\ \E doc_id \in CallableIds, page \in Pages :
          AddDocument(doc_id, page.title, page.content, page.url)

\* the same in a run that saves and loads snapshots
IngestFew ==
    /\ numAdds < MaxSavedAdds
    /\ \E doc_id \in CallableIds, page \in Pages :
          AddDocument(doc_id, page.title, page.content, page.url)

Query == \E query \in Queries, top_k \in Limits : SearchCall(query, top_k)

PhraseQuery == \E phrase \in Phrases, top_k \in Limits : SearchPhraseCall(phrase, top_k)

Suggest == \E prefix \in Prefixes, max_suggestions \in Limits :
               GetSuggestionsCall(prefix, max_suggestions)

\* building an index and querying it
Next ==
    \/ Ingest
    \/ CalculateTfidf
    \/ Query
    \/ PhraseQuery
    \/ Suggest

Spec == Init /\ [][Next]_vars

\* building an index, saving it and loading it
NextPersist ==
    \/ IngestFew
    \/ CalculateTfidf
    \/ SaveIndex
    \/ LoadIndex

SpecPersist == Init /\ [][NextPersist]_vars

\* building an index: any interleaving of add_document and calculate_tfidf
NextBuild ==
    \/ Ingest
    \/ CalculateTfidf

SpecBuild == Init /\ [][NextBuild]_vars

\* the file is absent or as save_index wrote it
Intact == file = NoFile \/ file = SaveIndexData(saved)

\* something else overwrites the snapshot file with a damaged copy of it
DamageFile ==
    /\ Idle
    /\ UNCHANGED crawlVars
    /\ file # NoFile
    /\ Intact
    /\ file' \in DamagedCopies(file)
    /\ lastOp' = Call("damage_file", << >>, 0)
    /\ result' = << >>
    /\ raised' = NoError
    /\ UNCHANGED << inverted_index, documents, doc_lengths, tfidf_scores,
                    saved, numAdds >>

\* No call is modelled on an indexer whose fields are not dicts: a run is
\* explored up to its first load of a damaged file.
Usable == lastOp.op = "load_index" => Intact

\* building an index, saving it and loading what is in the file
NextDamaged ==
    \/ Usable /\ IngestFew
    \/ Usable /\ CalculateTfidf
    \/ Usable /\ SaveIndex
    \/ Usable /\ DamageFile
    \/ Usable /\ LoadIndex

SpecDamaged == Init /\ [][NextDamaged]_vars

---------------------------------------------------------------------------
(* WebCrawler.crawl on a freshly constructed crawler *)

\* WebCrawler(max_pages) and the first lines of crawl(seed_urls, same_domain),
\* on a web whose pages have any of the link lists
InitCrawl ==
    /\ InitIndexer
    /\ max_pages \in 0..MaxPages
    /\ visited_urls = { }
    /\ seed_urls \in SeedLists
    /\ same_domain \in BOOLEAN
    /\ to_visit = seed_urls
    /\ crawled_pages = << >>
    /\ web \in [LinkUrls -> LinkLists]
    /\ fetches = << >>
    /\ pc = "loop"

\* if url in self.visited_urls: continue
SkipVisited ==
    /\ LoopRuns
    /\ Head(to_visit) \in visited_urls
    /\ to_visit' = Tail(to_visit)
    /\ UNCHANGED << max_pages, visited_urls, seed_urls, same_domain,
                    crawled_pages, web, fetches, pc >>
    /\ UNCHANGED indexVars

\* if urlparse(url).netloc != seed_domain: continue
SkipOtherDomain ==
    /\ LoopRuns
    /\ Head(to_visit) \notin visited_urls
    /\ OtherDomain(Head(to_visit), seed_urls, same_domain)
    /\ to_visit' = Tail(to_visit)
    /\ UNCHANGED << max_pages, visited_urls, seed_urls, same_domain,
                    crawled_pages, web, fetches, pc >>
    /\ UNCHANGED indexVars

\* fetch_page returns None: the request raised
FetchFailed ==
    /\ LoopRuns
    /\ IsFetched(Head(to_visit))
    /\ to_visit' = Tail(to_visit)
    /\ fetches' = Append(fetches, << Head(to_visit), FALSE >>)
    /\ UNCHANGED << max_pages, visited_urls, seed_urls, same_domain,
                    crawled_pages, web, pc >>
    /\ UNCHANGED indexVars

\* fetch_page returns the page, which a URL without netloc never does
FetchSucceeded ==
    /\ LoopRuns
    /\ IsFetched(Head(to_visit))
    /\ Head(to_visit) \in DOMAIN web
    /\ LET url   == Head(to_visit)
           links == web[url]
       IN  /\ visited_urls' = visited_urls \cup { url }
           /\ crawled_pages' = Append(crawled_pages, [url |-> url, links |-> links])
           /\ to_visit' = AddLinks(Tail(to_visit), links, visited_urls \cup { url })
           /\ fetches' = Append(fetches, << url, TRUE >>)
    /\ UNCHANGED << max_pages, seed_urls, same_domain, web, pc >>
    /\ UNCHANGED indexVars

\* the loop is over: return crawled_pages
Return ==
    /\ pc = "loop"
    /\ ~LoopRuns
    /\ pc' = "returned"
    /\ UNCHANGED << max_pages, visited_urls, seed_urls, same_domain, to_visit,
                    crawled_pages, web, fetches >>
    /\ UNCHANGED indexVars

NextCrawl ==
    \/ SkipVisited
    \/ SkipOtherDomain
    \/ FetchFailed
    \/ FetchSucceeded
    \/ Return

\* crawl is sequential code: it takes its next step whenever it has one
SpecCrawl == InitCrawl /\ [][NextCrawl]_vars /\ WF_vars(NextCrawl)

---------------------------------------------------------------------------
(* Properties *)

RECURSIVE SumOf(_)
SumOf(seq) == IF seq = << >> THEN 0 ELSE seq[1] + SumOf(Tail(seq))

\* inverted_index[term][doc_id], 0 when there is no such posting
Posting(inv, term, doc_id) ==
    IF DictHas(inv, term) /\ DictHas(DictGet(inv, term), doc_id)
    THEN DictGet(DictGet(inv, term), doc_id)
    ELSE 0

\* the sum over all terms of inverted_index[term][doc_id]
PostingSum(inv, doc_id) ==
    SumOf([i \in DOMAIN inv |-> Posting(inv, inv[i][1], doc_id)])

\* the position of a key in a dict
IndexOf(d, k) == CHOOSE i \in DOMAIN d : d[i][1] = k

\* the (term, doc_id) pairs of a two-level dict
Pairs(d) ==
    UNION { { << d[i][1], d[i][2][j][1] >> : j \in DOMAIN d[i][2] } : i \in DOMAIN d }

\* C1: after any sequence of add_document calls, reused ids included, the
\* length of every stored document is the sum over all terms of its postings.
C1_LengthIsPostingSum ==
    \A i \in DOMAIN doc_lengths :
        doc_lengths[i][2] = PostingSum(inverted_index, doc_lengths[i][1])

\* every score accumulated for the query is 0
AllScoresZero(doc_scores) == \A i \in DOMAIN doc_scores : doc_scores[i][2].num = 0

\* C2: search returns an empty sequence whenever no document accumulates a
\* nonzero score for the query, as when every indexed query term occurs in
\* every document.
C2_NoScoreNoResult ==
    (/\ lastOp.op = "search"
     /\ raised = NoError
     /\ AllScoresZero(DocScores(Self, lastOp.args)))
    => result = << >>

\* the (doc_id, score) additions search makes, in the order it makes them
RECURSIVE Additions(_, _)
Additions(tfidf, query_terms) ==
    IF query_terms = << >> THEN << >>
    ELSE (IF DictHas(tfidf, query_terms[1]) THEN DictGet(tfidf, query_terms[1]) ELSE << >>)
         \o Additions(tfidf, Tail(query_terms))

\* the score of doc_id is not 0 after the first n additions
NonzeroAfter(adds, doc_id, n) ==
    \E i \in 1..n : adds[i][1] = doc_id /\ adds[i][2].num # 0

\* the addition at which doc_id first acquires a nonzero score (scores are >= 0)
FirstNonzero(adds, doc_id) ==
    CHOOSE n \in DOMAIN adds :
        NonzeroAfter(adds, doc_id, n) /\ ~NonzeroAfter(adds, doc_id, n - 1)

\* C3: the scores search returns are non-increasing, and two returned documents
\* with equal accumulated score appear in the order in which they first
\* acquired a nonzero score.
C3_RankedByScoreThenFirstNonzero ==
    (lastOp.op = "search" /\ raised = NoError) =>
        LET acc  == DocScores(Self, lastOp.args)
            adds == Additions(tfidf_scores, tokenize(lastOp.args))
        IN  \A i, j \in DOMAIN result :
                i < j =>
                    /\ result[i].score >= result[j].score
                    /\ (/\ DictGet(acc, result[i].doc_id) = DictGet(acc, result[j].doc_id)
                        /\ DictGet(acc, result[i].doc_id).num # 0)
                       => FirstNonzero(adds, result[i].doc_id)
                            < FirstNonzero(adds, result[j].doc_id)

\* C4: right after calculate_tfidf on an index of N >= 1 documents, the table
\* holds exactly the (term, doc) pairs of the inverted index, each with the
\* score (frequency / length) * ln(N / df), 0 when the length is 0.
C4_TableAfterRecompute ==
    (lastOp.op = "calculate_tfidf" /\ Len(documents) >= 1) =>
        /\ Pairs(tfidf_scores) = Pairs(inverted_index)
        /\ \A p \in Pairs(inverted_index) :
              LET freq   == Posting(inverted_index, p[1], p[2])
                  length == DictGet(doc_lengths, p[2])
                  df     == Len(DictGet(inverted_index, p[1]))
                  ln     == LnTable[Len(documents)] - LnTable[df]
                  score  == DictGet(DictGet(tfidf_scores, p[1]), p[2])
              IN  IF length = 0 THEN score.num = 0
                  ELSE score.num * length = freq * ln * score.den

\* a recompute has just scored a posting of a document of length 0 and given
\* another posting a nonzero score
C4_Witness ==
    /\ lastOp.op = "calculate_tfidf"
    /\ Len(documents) >= 2
    /\ \E p \in Pairs(inverted_index) : DictGet(doc_lengths, p[2]) = 0
    /\ \E p \in Pairs(tfidf_scores) :
          DictGet(DictGet(tfidf_scores, p[1]), p[2]).num # 0

\* C5: add_document never changes tfidf_scores.
C5_AddKeepsScores ==
    [][lastOp'.op = "add_document" => tfidf_scores' = tfidf_scores]_vars

\* a document has been ingested after a recompute, and the table is stale
C5_Witness ==
    /\ lastOp.op = "add_document"
    /\ tfidf_scores # << >>
    /\ CalculateTfidfOf(Self).tfidf_scores # tfidf_scores

\* every word of the text is a stop word or at most 2 characters long
OnlyStopOrShort(text) ==
    \A w \in Range(FindWords(Lower(text))) : w \in StopWords \/ Len(w) <= 2

\* C6: search on a query that is empty, blank, or made of stop words and of
\* tokens of at most 2 characters returns an empty sequence and raises nothing.
C6_NoTermsNoResult ==
    (lastOp.op = "search" /\ OnlyStopOrShort(lastOp.args)) =>
        result = << >> /\ raised = NoError

\* "The is ab" has been searched in an index whose table is filled
C6_Witness ==
    /\ lastOp.op = "search"
    /\ lastOp.args = << "T", "h", "e", " ", "i", "s", " ", "a", "b" >>
    /\ tfidf_scores # << >>
    /\ result = << >>

\* C7: search_phrase with the empty phrase returns an empty sequence.
C7_EmptyPhraseNoResult ==
    (lastOp.op = "search_phrase" /\ lastOp.args = << >>) => result = << >>

\* the number of places at which sub occurs in s
Occurrences(s, sub) ==
    Cardinality({ at \in 1..Len(s) : \A i \in DOMAIN sub :
                     at + i - 1 <= Len(s) /\ s[at + i - 1] = sub[i] })

\* occurrences in the stored preview plus 3 times the occurrences in the title
ClaimedPhraseScore(doc, phrase) ==
    Occurrences(Lower(doc.content), Lower(phrase))
    + 3 * Occurrences(Lower(doc.title), Lower(phrase))

\* document a goes before document b: a greater score, or an equal score and
\* an earlier place in the document store
PhraseBefore(a, b, phrase) ==
    LET sa == ClaimedPhraseScore(documents[a][2], phrase)
        sb == ClaimedPhraseScore(documents[b][2], phrase)
    IN  sa > sb \/ (sa = sb /\ a < b)

DocFreq(term) == Len(DictGet(inverted_index, term))

\* the term starts with the lower-cased prefix
HasPrefix(term, prefix) ==
    /\ Len(prefix) <= Len(term)
    /\ \A i \in DOMAIN prefix : term[i] = LowerChar(prefix[i])

\* C9: get_suggestions returns at most max_suggestions terms of the inverted
\* index that start with the lower-cased prefix, in non-increasing document
\* frequency, and omits no matching term of a higher document frequency than
\* a returned one.
C9_Suggestions ==
    (lastOp.op = "get_suggestions") =>
        LET matching == { t \in DictKeys(inverted_index) : HasPrefix(t, lastOp.args) }
        IN  /\ Len(result) <= lastOp.k
            /\ \A i \in DOMAIN result : result[i] \in matching
            /\ \A i, j \in DOMAIN result :
                  i < j => DocFreq(result[i]) >= DocFreq(result[j])
            /\ \A t \in matching \ Range(result) :
                  \A i \in DOMAIN result : DocFreq(t) <= DocFreq(result[i])

\* one suggestion was asked for the empty prefix: the term indexed second, of
\* the higher document frequency, is returned and the first is omitted
C9_Witness ==
    /\ lastOp.op = "get_suggestions"
    /\ lastOp.args = << >>
    /\ lastOp.k = 1
    /\ Len(inverted_index) = 2
    /\ result = << inverted_index[2][1] >>
    /\ Len(inverted_index[2][2]) > Len(inverted_index[1][2])

\* C10: loading a saved snapshot yields the four fields as they were saved,
\* and every query answers on the loaded indexer as on the saved one.
C10_LoadRestoresSaved ==
    (lastOp.op = "load_index" /\ raised = NoError) =>
        /\ inverted_index = saved.inverted_index
        /\ documents = saved.documents
        /\ doc_lengths = saved.doc_lengths
        /\ tfidf_scores = saved.tfidf_scores
        /\ \A k \in Limits :
              /\ \A q \in Queries : 
                    /\ SearchRaises(Self, q, k) = SearchRaises(saved, q, k)
                    /\ Search(Self, q, k) = Search(saved, q, k)
              /\ \A q \in Phrases : SearchPhrase(Self, q, k) = SearchPhrase(saved, q, k)
              /\ \A q \in Prefixes : GetSuggestions(Self, q, k) = GetSuggestions(saved, q, k)

\* a snapshot of two documents taken after a recompute that gave a nonzero
\* score has been loaded
C10_Witness ==
    /\ lastOp.op = "load_index"
    /\ raised = NoError
    /\ Len(documents) = 2
    /\ \E p \in Pairs(tfidf_scores) :
          DictGet(DictGet(tfidf_scores, p[1]), p[2]).num # 0
    /\ CalculateTfidfOf(Self).tfidf_scores = tfidf_scores

\* a JSON object whose members are all of one of the kinds
ObjectOfKinds(j, kinds) ==
    /\ IsObject(j)
    /\ \A i \in DOMAIN j.members : j.members[i][2].json \in kinds

\* a JSON object of such objects
ObjectOfObjectsOf(j, kinds) ==
    /\ IsObject(j)
    /\ \A i \in DOMAIN j.members : ObjectOfKinds(j.members[i][2], kinds)

\* a JSON object with the strings title, content and url
DocumentShape(j) ==
    /\ ObjectOfKinds(j, { "string" })
    /\ { j.members[i][1] : i \in DOMAIN j.members } = { "title", "content", "url" }

\* the file holds a snapshot of the required structure: the four top-level
\* fields, each a mapping of the shape of the field it restores
ValidSnapshot(f) ==
    /\ IsObject(f)
    /\ \A n \in DOMAIN FieldNames : DictHas(LoadDict(f), FieldNames[n])
    /\ ObjectOfObjectsOf(DictGet(LoadDict(f), "inverted_index"), { "int" })
    /\ LET docs == DictGet(LoadDict(f), "documents")
       IN  /\ IsObject(docs)
           /\ \A i \in DOMAIN docs.members : DocumentShape(docs.members[i][2])
    /\ ObjectOfKinds(DictGet(LoadDict(f), "doc_lengths"), { "int" })
    /\ ObjectOfObjectsOf(DictGet(LoadDict(f), "tfidf_scores"), { "int", "float" })

\* C11: load_index on a missing snapshot, or on one that lacks a top-level
\* field or has a field that is not a mapping of the required shape, raises an
\* exception; it never returns normally.
C11_InvalidSnapshotRaises ==
    (lastOp.op = "load_index" /\ ~ValidSnapshot(file)) => raised # NoError

\* the number of times x occurs in the sequence
CountIn(seq, x) == Cardinality({ i \in DOMAIN seq : seq[i] = x })

\* 3 * |tokenize(title)| + |tokenize(content)|
WeightedLength(title, content) == 3 * Len(tokenize(title)) + Len(tokenize(content))

\* C12: every add_document(id, title, content) leaves doc_lengths[id] equal to
\* 3 * |tokenize(title)| + |tokenize(content)| for the title and the full
\* content it was given, leaves the length of every other id as it was and
\* leaves documents and doc_lengths with the same ids; no other call changes
\* doc_lengths.  Every stored length is therefore that of the most recent
\* ingestion of its id.
C12_LengthOfLastIngestion ==
    [][IF lastOp'.op = "add_document"
       THEN LET doc_id == lastOp'.args[1]
            IN  /\ DictKeys(doc_lengths') = DictKeys(documents')
                /\ DictKeys(doc_lengths') = DictKeys(doc_lengths) \cup { doc_id }
                /\ DictGet(doc_lengths', doc_id)
                      = WeightedLength(lastOp'.args[2], lastOp'.args[3])
                /\ \A other \in DictKeys(doc_lengths) \ { doc_id } :
                      DictGet(doc_lengths', other) = DictGet(doc_lengths, other)
       ELSE doc_lengths' = doc_lengths]_vars

\* the only id of the store has been ingested again, with a content whose
\* second token lies beyond the stored preview: the length is 2
C12_Witness ==
    /\ lastOp.op = "add_document"
    /\ Len(documents) = 1
    /\ numAdds >= 2
    /\ Len(tokenize(lastOp.args[3])) = 2
    /\ Len(tokenize(DictGet(documents, lastOp.args[1]).content)) = 1
    /\ DictGet(doc_lengths, lastOp.args[1]) = 2

\* inverted_index[term] has an entry for doc_id
HasPosting(inv, term, doc_id) ==
    DictHas(inv, term) /\ DictHas(DictGet(inv, term), doc_id)

\* the count of the term in the weighted tokens of a title and a content
WeightedCount(term, title, content) ==
    3 * CountIn(tokenize(title), term) + CountIn(tokenize(content), term)

\* C13: when add_document is called with an id ingested before, the posting of
\* that id for a term of the new version becomes the new count, the posting of
\* that id for any other term stays as it was, present or absent, and the
\* postings of all other ids are unchanged.
C13_ReingestOverwritesAndKeeps ==
    [][(lastOp'.op = "add_document" /\ DictHas(documents, lastOp'.args[1])) =>
          LET doc_id == lastOp'.args[1]
              terms  == DictKeys(inverted_index) \cup DictKeys(inverted_index')
              ids    == DictKeys(documents')
          IN  \A t \in terms :
                 LET count == WeightedCount(t, lastOp'.args[2], lastOp'.args[3])
                 IN  /\ IF count > 0
                        THEN /\ HasPosting(inverted_index', t, doc_id)
                             /\ Posting(inverted_index', t, doc_id) = count
                        ELSE /\ HasPosting(inverted_index', t, doc_id)
                                  = HasPosting(inverted_index, t, doc_id)
                             /\ Posting(inverted_index', t, doc_id)
                                  = Posting(inverted_index, t, doc_id)
                     /\ \A other \in ids \ { doc_id } :
                           /\ HasPosting(inverted_index', t, other)
                                = HasPosting(inverted_index, t, other)
                           /\ Posting(inverted_index', t, other)
                                = Posting(inverted_index, t, other)]_vars

\* an id ingested with "cat" 5 times and "dog" once has been ingested again
\* as "The Cat": its posting for "cat" is 3, not 8, and the one for "dog" is
\* still 1
C13_Witness ==
    /\ lastOp.op = "add_document"
    /\ WeightedCount(<< "c", "a", "t" >>, lastOp.args[2], lastOp.args[3]) = 3
    /\ WeightedCount(<< "d", "o", "g" >>, lastOp.args[2], lastOp.args[3]) = 0
    /\ Posting(inverted_index, << "c", "a", "t" >>, lastOp.args[1]) = 3
    /\ Posting(inverted_index, << "d", "o", "g" >>, lastOp.args[1]) = 1

\* C14: in every state reached by add_document and calculate_tfidf, every term
\* of the inverted index has a document frequency df with 1 <= df <= N, N the
\* number of stored documents, so that ln(N / df) is defined and >= 0 and is 0
\* exactly when df = N; and every stored score is >= 0.
C14_DocFreqInRange ==
    /\ \A i \in DOMAIN inverted_index :
          LET df == Len(inverted_index[i][2])
              N  == Len(documents)
          IN  /\ 1 <= df
              /\ df <= N
              /\ MathLog(N, df) >= 0
              /\ (MathLog(N, df) = 0) = (df = N)
    /\ \A p \in Pairs(tfidf_scores) :
          DictGet(DictGet(tfidf_scores, p[1]), p[2]).num >= 0

\* a recompute on two or more documents has just scored a term that is in all
\* of them and a term that is not, the latter with a score above 0
C14_Witness ==
    /\ lastOp.op = "calculate_tfidf"
    /\ Len(documents) >= 2
    /\ \E i \in DOMAIN inverted_index : Len(inverted_index[i][2]) = Len(documents)
    /\ \E i \in DOMAIN tfidf_scores :
          /\ Len(DictGet(inverted_index, tfidf_scores[i][1])) < Len(documents)
          /\ \E j \in DOMAIN tfidf_scores[i][2] : tfidf_scores[i][2][j][2].num > 0

\* C15: search, search_phrase and get_suggestions change none of
\* inverted_index, documents, doc_lengths and tfidf_scores, whatever their
\* arguments and the state of the index: no term key and no posting is
\* created by a read of the auto-creating mappings.
C15_QueriesReadOnly ==
    [][lastOp'.op \in QueryOps =>
          /\ inverted_index' = inverted_index
          /\ documents' = documents
          /\ doc_lengths' = doc_lengths
          /\ tfidf_scores' = tfidf_scores]_vars

\* "Cat dog" has been searched and a document returned for "cat" alone, in an
\* index that has no entry for "dog"
C15_Witness ==
    /\ lastOp.op = "search"
    /\ lastOp.args = << "C", "a", "t", " ", "d", "o", "g" >>
    /\ result # << >>
    /\ result[1].matched_terms = << << "c", "a", "t" >> >>
    /\ ~DictHas(inverted_index, << "d", "o", "g" >>)

\* C16: in every state reached by add_document and calculate_tfidf, documents
\* and doc_lengths have the same ids and every id in a posting list or in the
\* score table is an id of documents; and no search raises KeyError at its
\* document lookup.
C16_IdsAreStored ==
    /\ DictKeys(documents) = DictKeys(doc_lengths)
    /\ \A p \in Pairs(inverted_index) \cup Pairs(tfidf_scores) :
          p[2] \in DictKeys(documents)
    /\ lastOp.op = "search" => raised = NoError

\* a search has returned two documents from a score table that the
\* ingestions made after the recompute have left stale
C16_Witness ==
    /\ lastOp.op = "search"
    /\ Len(result) >= 2
    /\ Pairs(tfidf_scores) # Pairs(inverted_index)
    /\ Len(documents) = 3

\* the URLs of the pages crawl has fetched, in order
CrawledUrls == [i \in DOMAIN crawled_pages |-> crawled_pages[i].url]

\* no element occurs twice in the sequence
NoRepeat(seq) == \A i, j \in DOMAIN seq : seq[i] = seq[j] => i = j

\* no URL is fetched after a fetch of it that returned a page
NoFetchAfterSuccess ==
    \A i, j \in DOMAIN fetches :
        (i < j /\ fetches[i][2]) => fetches[j][1] # fetches[i][1]

\* C17: on a fresh crawler, crawl returns, whatever the links of the pages and
\* whichever fetches fail; the list it returns has at most max_pages pages and
\* no URL twice; and a URL fetched with success is never fetched again.
C17_CrawlReturnsBoundedList ==
    /\ <>(pc = "returned")
    /\ [](pc = "returned" =>
             /\ Len(crawled_pages) <= max_pages
             /\ NoRepeat(CrawledUrls))
    /\ []NoFetchAfterSuccess

\* crawl has returned max_pages = 2 pages with URLs left in the queue, after it
\* fetched one URL twice: in vain at first, and again when a page linked to it
C17_Witness ==
    /\ pc = "returned"
    /\ max_pages = 2
    /\ Len(crawled_pages) = 2
    /\ to_visit # << >>
    /\ \E i, j \in DOMAIN fetches :
          i < j /\ fetches[i][1] = fetches[j][1] /\ ~fetches[i][2] /\ fetches[j][2]

===========================================================================
